---- MODULE Spec2Model ----
(***************************************************************************)
(* The student CRUD service of src/src/index.js over the MySQL pool of     *)
(* src/unnamed/part_000 (db.js).                                           *)
(*                                                                         *)
(* Every pool.query is one atomic step of the database; a handler that     *)
(* awaits two statements (create, update) is two steps, and the handlers   *)
(* of other requests may run between them.  A handler's synchronous code   *)
(* is taken at the instant of the statement around it: a request is        *)
(* received no later than its first statement runs, and answered no        *)
(* earlier than its last one does.                                         *)
(*                                                                         *)
(* The students table (schema: spec sections 3 and 6) has the primary key  *)
(* id AUTO_INCREMENT and a unique key on student_code.  The pool is        *)
(* mysql2/promise: a rejected query is an Error whose message is the       *)
(* server's text and whose code property names the error.                  *)
(*                                                                         *)
(* JavaScript strings are sequences of tokens (a token is a character or   *)
(* an indivisible run of characters).  undefined and null are the reserved *)
(* one-token sequences Undefined and Null.                                 *)
(***************************************************************************)
EXTENDS Integers, Sequences, FiniteSets, TLC

\* ------------------------------------------------------------- bounds ---
\* Number of create and update handlers that can wait between their two
\* statements at the same time (the one-statement handlers are not limited).
NumReq == 2
\* Largest id the AUTO_INCREMENT counter hands out.
MaxId == 2

\* ------------------------------------------------------------- values ---
Undefined == <<"undefined">>
Null == <<"null">>

\* `!v` for the values a JSON body field takes here.
Falsy(v) == v = Undefined \/ v = Null \/ v = <<>>

\* `v || null`
OrNull(v) == IF Falsy(v) THEN Null ELSE v

IsSpace(c) == c = " "

RECURSIVE TrimStart(_)
TrimStart(s) ==
    IF s # <<>> /\ IsSpace(Head(s)) THEN TrimStart(Tail(s)) ELSE s

RECURSIVE TrimEnd(_)
TrimEnd(s) ==
    IF s # <<>> /\ IsSpace(s[Len(s)]) THEN TrimEnd(SubSeq(s, 1, Len(s) - 1)) ELSE s

\* String.prototype.trim
Trim(s) == TrimEnd(TrimStart(s))

\* String.prototype.includes
Includes(s, sub) ==
    \E i \in 0..(Len(s) - Len(sub)) : SubSeq(s, i + 1, i + Len(sub)) = sub

\* ------------------------------------------------------------- inputs ---
\* Request bodies.  id = 0 stands for a body without an id property.
Body(c, n, e, d, k, i) ==
    [student_code |-> c, full_name |-> n, email |-> e, dob |-> d,
     class_name |-> k, id |-> i]

Bodies ==
    { Body(<<"S1">>, <<"A", "n">>, <<"e">>, <<>>, Undefined, 0),
      Body(<<"ER_DUP_ENTRY">>, <<" ">>, Undefined, Undefined, Undefined, 1),
      Body(<<"S1">>, Undefined, Undefined, Undefined, Undefined, 0) }

\* Values of the q query parameter.
Queries == { Undefined, <<" ">>, <<" ", "A">>, <<"%">> }

\* Values of the :id path parameter.
Ids == 1..MaxId

Slots == 1..NumReq

\* ----------------------------------------------------------- database ---
\* A row of the students table (created_at and updated_at are left out).
Row(i, p) ==
    [id |-> i, student_code |-> p.student_code, full_name |-> p.full_name,
     email |-> p.email, dob |-> p.dob, class_name |-> p.class_name]

\* The error mysql2 rejects a query with: the code is a property of the
\* error, the message is the server's text.
DupError(code) ==
    [code |-> "ER_DUP_ENTRY",
     message |-> <<"Duplicate entry '">> \o code \o <<"' for key 'student_code'">>]

ConnError == [code |-> "ECONNREFUSED", message |-> <<"connect ECONNREFUSED">>]

\* UNIQUE(student_code): another row holds the code.
DupKey(tbl, code, exceptId) ==
    \E s \in tbl : s.student_code = code /\ s.id # exceptId

\* PRIMARY KEY(id): a row holds the id.
HasId(tbl, i) == \E s \in tbl : s.id = i

\* The id an INSERT gives the row: the id column when the statement sets
\* one, the AUTO_INCREMENT counter otherwise.
InsertId(p, counter) == IF "id" \in DOMAIN p /\ p.id # 0 THEN p.id ELSE counter

\* INSERT as a table without the unique key on student_code rejects it.
InsertRejectedPrimaryOnly(tbl, p, counter) == HasId(tbl, InsertId(p, counter))

\* INSERT is rejected.
InsertRejected(tbl, p, counter) ==
    DupKey(tbl, p.student_code, 0) \/ HasId(tbl, InsertId(p, counter))

RECURSIVE SortById(_)
\* ORDER BY id ASC
SortById(S) ==
    IF S = {} THEN <<>>
    ELSE LET m == CHOOSE s \in S : \A t \in S : s.id <= t.id
         IN <<m>> \o SortById(S \ {m})

\* SELECT ... WHERE id = ?
SelectById(tbl, i) == SortById({s \in tbl : s.id = i})

\* SELECT ... ORDER BY id ASC
SelectAll(tbl) == SortById(tbl)

RECURSIVE Like(_, _)
\* s LIKE p: % matches any run of characters, _ any one character.
Like(s, p) ==
    IF p = <<>> THEN s = <<>>
    ELSE IF Head(p) = "%"
         THEN Like(s, Tail(p)) \/ (s # <<>> /\ Like(Tail(s), p))
         ELSE /\ s # <<>>
              /\ (Head(p) = "_" \/ Head(p) = Head(s))
              /\ Like(Tail(s), Tail(p))

\* SELECT ... WHERE full_name LIKE ? ORDER BY id ASC
SelectLike(tbl, pat) == SortById({s \in tbl : Like(s.full_name, pat)})

\* -------------------------------------------------------------- state ---
VARIABLES
    students,   \* the rows of the students table
    autoInc,    \* the table's AUTO_INCREMENT counter
    req,        \* per slot: the handler waiting for its second statement
    out,        \* the response being written (NoOut: none)
    deleted,    \* ids whose DELETE was answered 200
    returned    \* the largest id carried by the body of a 201 so far (0: none)

vars == <<students, autoInc, req, out, deleted, returned>>

NoBody == Body(<<>>, <<>>, <<>>, <<>>, <<>>, 0)

\* A free slot.  Of a waiting handler the slot keeps: pc, which handler it
\* is; id, the insertId or the :id parameter; body, the request body; floor,
\* the value of `returned` at the handler's first statement; disturbed, whether
\* another request's UPDATE or DELETE has changed row id since this handler's
\* own statement.
Idle == [pc |-> "idle", id |-> 0, body |-> NoBody, floor |-> 0, disturbed |-> FALSE]

\* No response.  Of a response `out` keeps: kind, the handler; status, the
\* HTTP status (0: the handler sent nothing); escaped, the handler's promise
\* was rejected (express 4 then leaves the request unanswered and the
\* rejection unhandled; express 5 passes it to its error middleware);
\* rows, the body (the rows sent; <<>> for an undefined body or a body
\* without rows); id, body, q, floor, disturbed, what the handler was given
\* (left out of the answer to a rejected first statement);
\* wrote, whether a statement of the handler changed the table; err, the
\* error the handler's statement was rejected with.
NoOut == [kind |-> "none", status |-> 0, id |-> 0, body |-> NoBody,
          q |-> <<>>, rows |-> <<>>, floor |-> 0, disturbed |-> FALSE,
          wrote |-> FALSE, err |-> "none", escaped |-> FALSE]

Init ==
    /\ students = {}
    /\ autoInc = 1
    /\ req = [r \in Slots |-> Idle]
    /\ out = NoOut
    /\ deleted = {}
    /\ returned = 0

\* ----------------------------------------------------------- handlers ---
\* The INSERT parameters of a handler that passes the body's id on.
InsertParamsWithId(body) ==
    [student_code |-> body.student_code, full_name |-> body.full_name,
     email |-> OrNull(body.email), dob |-> OrNull(body.dob),
     class_name |-> OrNull(body.class_name), id |-> body.id]

\* The parameters of the INSERT statement.
InsertParams(body) ==
    [student_code |-> body.student_code, full_name |-> body.full_name,
     email |-> OrNull(body.email), dob |-> OrNull(body.dob),
     class_name |-> OrNull(body.class_name)]

\* The UPDATE parameters with the first two in the wrong order.
UpdateParamsSwapped(body) ==
    [student_code |-> body.full_name, full_name |-> body.student_code,
     email |-> OrNull(body.email), dob |-> OrNull(body.dob),
     class_name |-> OrNull(body.class_name)]

\* The column parameters of the UPDATE statement.
UpdateParams(body) ==
    [student_code |-> body.student_code, full_name |-> body.full_name,
     email |-> OrNull(body.email), dob |-> OrNull(body.dob),
     class_name |-> OrNull(body.class_name)]

\* `!student_code || !full_name`
Invalid(body) == Falsy(body.student_code) \/ Falsy(body.full_name)

\* String(e) of an Error: its name, a colon and its message.
ErrString(e) == <<"Error: ">> \o e.message

\* The catch block of create and update.
ErrStatus(e) == IF Includes(ErrString(e), <<"ER_DUP_ENTRY">>) THEN 409 ELSE 500

\* `if (!rows) return res.status(404)`: an array is never falsy.
GetStatusNoLength(rows) == 200

\* `if (!rows.length) return res.status(404)`
GetStatus(rows) == IF Len(rows) = 0 THEN 404 ELSE 200

\* `if (result.affectedRows !== 0) return res.status(404)`
AffectedStatusInverted(affectedRows) == IF affectedRows # 0 THEN 404 ELSE 200

\* `if (result.affectedRows === 0) return res.status(404)`
AffectedStatus(affectedRows) == IF affectedRows = 0 THEN 404 ELSE 200

\* A re-fetch of the newest row: SELECT ... ORDER BY id DESC LIMIT 1
RefetchLast(tbl, insertId) ==
    SortById({s \in tbl : \A t \in tbl : t.id <= s.id})

\* The re-fetch of create: SELECT ... WHERE id = result.insertId
Refetch(tbl, insertId) == SelectById(tbl, insertId)

\* `%${q}%`
LikePattern(q) == <<"%">> \o q \o <<"%">>

\* `(req.query.q || "").trim()`
QueryText(q) == Trim(IF Falsy(q) THEN <<>> ELSE q)

MaxOf(S) == CHOOSE m \in S : \A k \in S : k <= m

\* A handler takes the lowest free slot.
FreeSlot(r) == req[r].pc = "idle" /\ \A k \in 1..(r - 1) : req[k].pc # "idle"

\* A statement changed or removed row i while the handlers in rq wait for
\* their re-fetch of it.
Disturb(rq, i) ==
    [k \in Slots |->
        IF rq[k].pc # "idle" /\ rq[k].id = i
        THEN [rq[k] EXCEPT !.disturbed = TRUE] ELSE rq[k]]

\* No response is being written.
Quiet == out = NoOut

\* The response is written and the "finish" listeners of the logging and
\* metrics middleware run; for a rejection that left its handler, the runtime
\* reports it.  No handler reads `out`, so ordering this step before the next
\* statement loses no interleaving of the statements.
Finish ==
    /\ out # NoOut
    /\ out' = NoOut
    /\ UNCHANGED <<students, autoInc, req, deleted, returned>>

\* GET /healthz; fail: the pool rejects the query.
Healthz(fail) ==
    /\ Quiet
    /\ out' = IF fail
              THEN [NoOut EXCEPT !.kind = "healthz", !.status = 500, !.err = "conn"]
              ELSE [NoOut EXCEPT !.kind = "healthz", !.status = 200]
    /\ UNCHANGED <<students, autoInc, req, deleted, returned>>

\* GET /api/students?q=
List(q, fail) ==
    /\ Quiet
    /\ out' = IF fail
              THEN [NoOut EXCEPT !.kind = "list", !.err = "conn", !.escaped = TRUE]
              ELSE [NoOut EXCEPT !.kind = "list", !.q = q, !.status = 200,
                                 !.rows = IF QueryText(q) # <<>>
                                          THEN SelectLike(students, LikePattern(QueryText(q)))
                                          ELSE SelectAll(students)]
    /\ UNCHANGED <<students, autoInc, req, deleted, returned>>

\* GET /api/students/:id
GetById(id, fail) ==
    /\ Quiet
    /\ out' = IF fail
              THEN [NoOut EXCEPT !.kind = "get", !.err = "conn", !.escaped = TRUE]
              ELSE [NoOut EXCEPT !.kind = "get", !.id = id,
                                 !.rows = SelectById(students, id),
                                 !.status = GetStatus(SelectById(students, id))]
    /\ UNCHANGED <<students, autoInc, req, deleted, returned>>

\* POST /api/students up to the result of its INSERT.
CreateInsert(r, body, fail) ==
    /\ Quiet
    /\ FreeSlot(r)
    /\ IF Invalid(body)
       THEN /\ ~fail
            /\ out' = [NoOut EXCEPT !.kind = "create", !.body = body, !.status = 400]
            /\ UNCHANGED <<students, autoInc, req>>
       ELSE IF fail
       THEN /\ out' = [NoOut EXCEPT !.kind = "create", !.err = "conn",
                                    !.status = ErrStatus(ConnError)]
            /\ UNCHANGED <<students, autoInc, req>>
       ELSE IF InsertRejected(students, InsertParams(body), autoInc)
       THEN /\ out' = [NoOut EXCEPT !.kind = "create", !.body = body, !.err = "dup",
                          !.status = ErrStatus(DupError(InsertParams(body).student_code))]
            /\ UNCHANGED <<students, autoInc, req>>
       ELSE LET p == InsertParams(body)
                i == InsertId(p, autoInc)
            IN /\ i <= MaxId
               /\ students' = students \cup {Row(i, p)}
               /\ autoInc' = IF i >= autoInc THEN i + 1 ELSE autoInc
               /\ req' = [req EXCEPT ![r] = [pc |-> "create", id |-> i, body |-> body,
                                             floor |-> returned, disturbed |-> FALSE]]
               /\ out' = NoOut
    /\ UNCHANGED <<deleted, returned>>

\* POST /api/students from the re-fetch SELECT to the response.
CreateSelect(r, fail) ==
    /\ Quiet
    /\ req[r].pc = "create"
    /\ LET rows == Refetch(students, req[r].id)
       IN /\ out' = [NoOut EXCEPT !.kind = "create", !.id = req[r].id,
                        !.body = req[r].body, !.floor = req[r].floor,
                        !.disturbed = req[r].disturbed, !.wrote = TRUE,
                        !.rows = IF fail THEN <<>> ELSE rows,
                        !.err = IF fail THEN "conn" ELSE "none",
                        !.status = IF fail THEN ErrStatus(ConnError) ELSE 201]
          /\ returned' = IF fail THEN returned
                         ELSE MaxOf({returned} \cup {rows[k].id : k \in 1..Len(rows)})
    /\ req' = [req EXCEPT ![r] = Idle]
    /\ UNCHANGED <<students, autoInc, deleted>>

\* PUT /api/students/:id up to the result of its UPDATE.
UpdateExec(r, id, body, fail) ==
    /\ Quiet
    /\ FreeSlot(r)
    /\ IF Invalid(body)
       THEN /\ ~fail
            /\ out' = [NoOut EXCEPT !.kind = "update", !.id = id, !.body = body,
                                    !.status = 400]
            /\ UNCHANGED <<students, req>>
       ELSE IF fail
       THEN /\ out' = [NoOut EXCEPT !.kind = "update", !.err = "conn",
                                    !.status = ErrStatus(ConnError)]
            /\ UNCHANGED <<students, req>>
       ELSE IF HasId(students, id)
               /\ DupKey(students, UpdateParams(body).student_code, id)
       THEN /\ out' = [NoOut EXCEPT !.kind = "update", !.id = id, !.body = body,
                          !.err = "dup",
                          !.status = ErrStatus(DupError(UpdateParams(body).student_code))]
            /\ UNCHANGED <<students, req>>
       ELSE LET affectedRows == Cardinality({s \in students : s.id = id})
            IN /\ students' = {s \in students : s.id # id}
                      \cup {Row(s.id, UpdateParams(body)) : s \in {t \in students : t.id = id}}
               /\ IF AffectedStatus(affectedRows) = 404
                  THEN /\ out' = [NoOut EXCEPT !.kind = "update", !.id = id,
                                     !.body = body, !.status = 404,
                                     !.wrote = (affectedRows # 0)]
                       /\ req' = Disturb(req, IF affectedRows # 0 THEN id ELSE 0)
                  ELSE /\ out' = NoOut
                       /\ req' = [Disturb(req, IF affectedRows # 0 THEN id ELSE 0)
                                     EXCEPT ![r] = [pc |-> "update", id |-> id,
                                                    body |-> body, floor |-> 0,
                                                    disturbed |-> FALSE]]
    /\ UNCHANGED <<autoInc, deleted, returned>>

\* PUT /api/students/:id from the re-fetch SELECT to the response.
UpdateSelect(r, fail) ==
    /\ Quiet
    /\ req[r].pc = "update"
    /\ out' = [NoOut EXCEPT !.kind = "update", !.id = req[r].id,
                  !.body = req[r].body, !.disturbed = req[r].disturbed,
                  !.wrote = TRUE,
                  !.rows = IF fail THEN <<>> ELSE SelectById(students, req[r].id),
                  !.err = IF fail THEN "conn" ELSE "none",
                  !.status = IF fail THEN ErrStatus(ConnError) ELSE 200]
    /\ req' = [req EXCEPT ![r] = Idle]
    /\ UNCHANGED <<students, autoInc, deleted, returned>>

\* DELETE /api/students/:id
Delete(id, fail) ==
    /\ Quiet
    /\ IF fail
       THEN /\ out' = [NoOut EXCEPT !.kind = "delete", !.err = "conn", !.escaped = TRUE]
            /\ UNCHANGED <<students, req, deleted>>
       ELSE LET affectedRows == Cardinality({s \in students : s.id = id})
            IN /\ students' = {s \in students : s.id # id}
               /\ req' = Disturb(req, IF affectedRows # 0 THEN id ELSE 0)
               /\ out' = [NoOut EXCEPT !.kind = "delete", !.id = id,
                                       !.wrote = (affectedRows # 0),
                                       !.status = AffectedStatus(affectedRows)]
               /\ deleted' = IF AffectedStatus(affectedRows) = 200
                             THEN deleted \cup {id} ELSE deleted
    /\ UNCHANGED <<autoInc, returned>>

Next ==
    \/ \E fail \in BOOLEAN : Healthz(fail)
    \/ \E q \in Queries, fail \in BOOLEAN : List(q, fail)
    \/ \E id \in Ids, fail \in BOOLEAN : GetById(id, fail)
    \/ \E r \in Slots, body \in Bodies, fail \in BOOLEAN : CreateInsert(r, body, fail)
    \/ \E r \in Slots, fail \in BOOLEAN : CreateSelect(r, fail)
    \/ \E r \in Slots, id \in Ids, body \in Bodies, fail \in BOOLEAN :
          UpdateExec(r, id, body, fail)
    \/ \E r \in Slots, fail \in BOOLEAN : UpdateSelect(r, fail)
    \/ \E id \in Ids, fail \in BOOLEAN : Delete(id, fail)
    \/ Finish

Spec == Init /\ [][Next]_vars

\* ------------------------------------------------------------- claims ---
Answered == out.status # 0

\* `v` is absent or empty after trimming.
Blank(v) == v = Undefined \/ v = Null \/ Trim(v) = <<>>

\* The row a valid body leaves behind under id i: the five columns as
\* submitted, the optional ones null when absent or empty.
Submitted(i, body) ==
    [id |-> i, student_code |-> body.student_code, full_name |-> body.full_name,
     email |-> IF body.email \in {Undefined, Null, <<>>} THEN Null ELSE body.email,
     dob |-> IF body.dob \in {Undefined, Null, <<>>} THEN Null ELSE body.dob,
     class_name |-> IF body.class_name \in {Undefined, Null, <<>>}
                    THEN Null ELSE body.class_name]

\* C1: no two rows of the students table have the same student_code.
C1_UniqueStudentCode ==
    \A a \in students : \A b \in students :
        a.student_code = b.student_code => a = b

\* C1 witness: a statement was rejected by the unique constraint while the
\* table holds two rows.
C1_Witness == out.err = "dup" /\ Cardinality(students) = 2

\* C2: a create whose student_code is already held by a row (the second of
\* two creates with the same code), and an update that would give a row the
\* student_code of another row, is answered 409.
C2_DuplicateIsConflict ==
    (out.kind \in {"create", "update"} /\ out.err = "dup") => out.status = 409

\* C3: no handler lets a rejected query leave it uncaught, without a response.
C3_NoEscape == ~out.escaped

\* C4 as claimed: every create answered 201 carries the row it inserted (the
\* insertId, the submitted student_code and full_name), whatever other
\* requests ran between its INSERT and its re-fetch.
C4_Original ==
    (out.kind = "create" /\ out.status = 201) =>
        /\ Len(out.rows) = 1
        /\ out.rows[1].id = out.id
        /\ out.rows[1].student_code = out.body.student_code
        /\ out.rows[1].full_name = out.body.full_name

\* C4 amended: the body of a create answered 201 is empty or a row with the
\* insertId; it is the inserted row, with the submitted student_code and
\* full_name, when no other request's UPDATE or DELETE changed that row
\* between the INSERT and the re-fetch.
C4_Amended ==
    (out.kind = "create" /\ out.status = 201) =>
        /\ Len(out.rows) <= 1
        /\ \A k \in 1..Len(out.rows) : out.rows[k].id = out.id
        /\ ~out.disturbed =>
              /\ Len(out.rows) = 1
              /\ out.rows[1].student_code = out.body.student_code
              /\ out.rows[1].full_name = out.body.full_name

\* C4 witness: a 201 with its row while another create waits for its re-fetch.
C4_Witness ==
    /\ out.kind = "create" /\ out.status = 201 /\ ~out.disturbed
    /\ Len(out.rows) = 1
    /\ \E r \in Slots : req[r].pc = "create"

\* No 201 has carried id i so far: it is above every id returned, or the
\* create that inserted it has not answered yet.
NotReturned(i) ==
    i > returned \/ \E r \in Slots : req[r].pc = "create" /\ req[r].id = i

\* C5 as claimed: a GET of an id that no create has returned, or whose DELETE
\* was answered 200, is answered 404.
C5_Original ==
    (out.kind = "get" /\ Answered /\ (NotReturned(out.id) \/ out.id \in deleted))
        => out.status = 404

\* C5 amended: a GET whose SELECT succeeds is answered 404 when no row has
\* its id: for an id no INSERT has generated, and for an id whose DELETE was
\* answered 200, at any later time.
C5_Amended ==
    (out.kind = "get" /\ Answered
        /\ (~HasId(students, out.id) \/ out.id >= autoInc \/ out.id \in deleted))
        => out.status = 404

\* C5 witness: a GET of a deleted id answered 404 after a later create.
C5_Witness ==
    /\ out.kind = "get" /\ out.status = 404 /\ out.id \in deleted
    /\ autoInc > out.id + 1

\* C6: a create or update whose student_code or full_name is absent or empty
\* after trimming is never answered 200, 201, 404 or 409.
C6_BlankIsRejected ==
    (out.kind \in {"create", "update"} /\ Answered
        /\ (Blank(out.body.student_code) \/ Blank(out.body.full_name)))
        => out.status \notin {200, 201, 404, 409}

\* C7 as claimed: a valid update answered 200 carries the row with the
\* submitted columns, whatever ran between its UPDATE and its re-fetch.
C7_Original ==
    (out.kind = "update" /\ out.status = 200) =>
        out.rows = <<Submitted(out.id, out.body)>>

\* The response part of C7 amended.
C7_Response ==
    (out.kind = "update" /\ Answered /\ ~Invalid(out.body)) =>
        /\ (out.err = "none" /\ out.status # 200) =>
              (out.status = 404 /\ ~HasId(students, out.id) /\ ~out.wrote)
        /\ out.status = 200 =>
              /\ Len(out.rows) <= 1
              /\ \A k \in 1..Len(out.rows) : out.rows[k].id = out.id
              /\ ~out.disturbed => out.rows = <<Submitted(out.id, out.body)>>

\* The statement part of C7 amended: the step in which slot r's UPDATE
\* succeeds replaces the five columns of row id and changes nothing else.
C7_Statement ==
    \A r \in Slots :
        (req[r].pc = "idle" /\ req'[r].pc = "update") =>
            /\ HasId(students, req'[r].id)
            /\ students' = {s \in students : s.id # req'[r].id}
                              \cup {Submitted(req'[r].id, req'[r].body)}

\* C7 amended: a valid update whose UPDATE is not rejected is answered 404
\* when no row has the id; otherwise the UPDATE replaces the five columns of
\* exactly that row in one step and keeps its id, and the 200 carries the
\* row as re-fetched: the submitted columns when no other request's UPDATE or
\* DELETE changed the row in between, else an empty body or the other
\* request's columns.
C7_Amended == [](C7_Response) /\ [][C7_Statement]_vars

\* C7 witness: a 200 with the submitted columns, whose body differs from the
\* row it replaced.
C7_Witness ==
    /\ out.kind = "update" /\ out.status = 200 /\ ~out.disturbed
    /\ out.rows = <<Submitted(out.id, out.body)>>
    /\ out.body.student_code = <<"ER_DUP_ENTRY">>

\* C8: the id of a create answered 201 is the generated insertId and is not
\* smaller than the id of any 201 answered before this request was received.
C8_Monotonic ==
    (out.kind = "create" /\ out.status = 201 /\ Len(out.rows) = 1) =>
        /\ out.rows[1].id >= out.floor
        /\ out.rows[1].id = out.id

\* C8 witness: a 201 after an earlier 201 whose row has been deleted, for a
\* body that carries an id of its own.
C8_Witness ==
    /\ out.kind = "create" /\ out.status = 201 /\ Len(out.rows) = 1
    /\ out.floor >= 1 /\ out.floor \in deleted
    /\ out.body.id # 0 /\ out.body.id # out.rows[1].id

\* C9: a list with q non-empty after trimming returns the rows whose
\* full_name contains the trimmed q, in ascending id order; all rows otherwise.
C9_SearchIsSubstring ==
    (out.kind = "list" /\ out.status = 200) =>
        out.rows =
            IF out.q \notin {Undefined, Null} /\ Trim(out.q) # <<>>
            THEN SortById({s \in students : Includes(s.full_name, Trim(out.q))})
            ELSE SortById(students)

\* C10: the step that answers 400, 404 or 409, and every step of a GET or
\* list/search, leaves the students table unchanged, and no earlier
\* statement of that request changed it.
C10_Frame ==
    [][(out' # NoOut
          /\ (out'.status \in {400, 404, 409} \/ out'.kind \in {"get", "list"}))
        => (students' = students /\ ~out'.wrote)]_vars

\* C10 witness: an update answered 409.
C10_Witness == out.kind = "update" /\ out.status = 409

====
